---------------------------- MODULE Spec2Model ----------------------------
(***************************************************************************)
(* Model of llm-watcher (src/app.py): a loop that fetches a batch of       *)
(* documents from an Elasticsearch "watch" index, sends each one to an    *)
(* LLM backend, writes the enriched document to the index named in the    *)
(* document's control block and deletes the queue entry; on any exception *)
(* the fetched copy is written back with _llm_watcher.error set.          *)
(*                                                                         *)
(* Python dicts are functions whose DOMAIN is the set of keys present.    *)
(* One action is one network call of the program together with the local  *)
(* code around it.  The tasks of a batch run in a multiprocessing pool    *)
(* and interleave freely.                                                  *)
(***************************************************************************)
EXTENDS Integers, Sequences, FiniteSets, TLC

\* ---------------------------------------------------------------- bounds
MaxCycles == 2      \* cycles of main's loop that are explored
MaxBatch  == 2      \* largest --batch-size that is explored

\* ------------------------------------------------------------ python data
None      == "None"          \* Python's None; str(None) is "None"
EmptyDict == << >>           \* {}

\* dict.get(k, default)
Get(d, k, default) == IF k \in DOMAIN d THEN d[k] ELSE default

\* d[k] = v on a dict
Put(d, k, v) == [x \in DOMAIN d \cup {k} |-> IF x = k THEN v ELSE d[x]]

\* del d[k]
Del(d, k) == [x \in DOMAIN d \ {k} |-> d[x]]

\* ------------------------------------------------------------- the store
WatchIndex == "llm-queue"    \* --watch-index default
\* the document ids of the watch index, in the order in which the store
\* returns them (its own order, or ascending --sort-field)
StoreOrder == <<"1", "2">>
Ids        == {StoreOrder[n] : n \in 1..Len(StoreOrder)}

\* the control block of scenario 1 as the specification spells it
CtlScenario1 ==
  [original_index |-> "out", provider |-> "ollama", model |-> "m",
   prompt |-> "{{ctx.text}}", format |-> EmptyDict]

\* control blocks with the key the program reads
CtlOllama ==
  [_original_index |-> "out", provider |-> "ollama", model |-> "m",
   prompt |-> "{{ctx.text}}", format |-> EmptyDict]

CtlOpenai ==
  [_original_index |-> "out2", provider |-> "openai", model |-> "m",
   prompt |-> "{{ctx.text}}", format |-> EmptyDict]

CtlUnknown ==
  [_original_index |-> "out", provider |-> "foo", model |-> "m",
   prompt |-> "{{ctx.text}}", format |-> EmptyDict]

CtlNoProvider ==
  [_original_index |-> "out", model |-> "m",
   prompt |-> "{{ctx.text}}", format |-> EmptyDict]

CtlBadPrompt ==
  [_original_index |-> "out", provider |-> "ollama", model |-> "m",
   prompt |-> "{{", format |-> EmptyDict]

Src(text, ctl) == ("text" :> text) @@ ("_llm_watcher" :> ctl)

\* the documents a producer may have put into the watch index
Sources ==
  { Src("hi", CtlScenario1), Src("hi", CtlOllama), Src("hey", CtlOpenai),
    Src("hi", CtlUnknown), Src("hi", CtlNoProvider), Src("hi", CtlBadPrompt),
    ("text" :> "hi") }


VARIABLES
  args,      \* the configuration main parsed: batch_size, retry_errors
  es,        \* the store: index name -> (id -> _source), existing indices only
  mainPc,    \* main's loop: "idle", "dispatching", "crashed"
  cycle,     \* number of worker_loop calls started
  docs,      \* worker_loop's docs: the hits of the current cycle
  tasks,     \* one process_document call per hit of the current cycle
  cycleLog,  \* what the current cycle observed (fetch outcome, summary)
  delFailed, \* the ids whose delete the store has rejected so far
  peer       \* a second worker process on the same store: pc, cycle, docs, tasks

vars == <<args, es, mainPc, cycle, docs, tasks, cycleLog, delFailed, peer>>

\* a write that replaces the content of the whole index by the one document
UpsertReplaceIndex(store, index, doc_id, source) ==
  [x \in DOMAIN store \cup {index} |->
     IF x = index THEN (doc_id :> source) ELSE store[x]]

\* POST {index}/_doc/{id}: full replace, creates the document and the index
Upsert(store, index, doc_id, source) ==
  [x \in DOMAIN store \cup {index} |->
     IF x = index
       THEN Put(IF index \in DOMAIN store THEN store[index] ELSE EmptyDict,
                doc_id, source)
       ELSE store[x]]

\* DELETE {index}/_doc/{id}
Remove(store, index, doc_id) ==
  [store EXCEPT ![index] = Del(@, doc_id)]

\* the store answers 404 to a delete of a document that is not there
Present(store, index, doc_id) ==
  index \in DOMAIN store /\ doc_id \in DOMAIN store[index]

\* ---------------------------------------------------- get_elasticsearch_docs
\* {"exists": {"field": "_llm_watcher.error"}}
ExistsError(source) ==
  /\ "_llm_watcher" \in DOMAIN source
  /\ "error" \in DOMAIN source["_llm_watcher"]

non_error(source) == ~ExistsError(source)

match_all(source) == TRUE

\* query['query'] as lines 38-47 build it
\* a query that never filters
QueryMatchesAll(retry_errors, source) ==
  match_all(source)

QueryMatches(retry_errors, source) ==
  IF retry_errors THEN non_error(source) ELSE match_all(source)

Min(a, b) == IF a < b THEN a ELSE b

\* a search whose request carries no "size"
SearchHitsUnbounded(store, index, batch_size, retry_errors) ==
  LET Match(id) == /\ id \in DOMAIN store[index]
                   /\ QueryMatches(retry_errors, store[index][id])
      found     == SelectSeq(StoreOrder, Match)
  IN  [k \in 1..Len(found) |->
         [_id |-> found[k], _source |-> store[index][found[k]]]]

\* r.json()['hits']['hits'] of a successful search: the matching documents
\* in store order, at most "size" of them
SearchHits(store, index, batch_size, retry_errors) ==
  LET Match(id) == /\ id \in DOMAIN store[index]
                   /\ QueryMatches(retry_errors, store[index][id])
      found     == SelectSeq(StoreOrder, Match)
      n         == Min(batch_size, Len(found))
  IN  [k \in 1..n |-> [_id |-> found[k], _source |-> store[index][found[k]]]]

\* the status of the search response: 404 when the index does not exist,
\* otherwise success or any other error status
SearchStatuses(store, index) ==
  IF index \in DOMAIN store THEN {200, 500} ELSE {404}

\* the fetch without lines 57-58: a 404 raises like any other error status
get_elasticsearch_docs_No404(store, index, batch_size, retry_errors, status) ==
  IF status >= 400 THEN [raised |-> TRUE, hits |-> << >>]
  ELSE [raised |-> FALSE,
        hits |-> SearchHits(store, index, batch_size, retry_errors)]

\* get_elasticsearch_docs: what the call returns, or that it raises
get_elasticsearch_docs(store, index, batch_size, retry_errors, status) ==
  IF status = 404 THEN [raised |-> FALSE, hits |-> << >>]
  ELSE IF status >= 400 THEN [raised |-> TRUE, hits |-> << >>]
  ELSE [raised |-> FALSE,
        hits |-> SearchHits(store, index, batch_size, retry_errors)]

\* --------------------------------------------------------------- jinja2
BadTemplate == "{{"

\* jinja2.Template(prompt): the message of the exception, "" when it compiles
TemplateError(prompt) ==
  IF prompt = None THEN "Can't compile non template nodes"
  ELSE IF prompt = BadTemplate THEN "unexpected 'end of template'"
  ELSE ""

\* prompt_template.render(ctx=ctx); an undefined ctx.text renders as ""
Render(prompt, ctx) ==
  IF prompt = "{{ctx.text}}" THEN Get(ctx, "text", "") ELSE prompt

\* ------------------------------------------------------------ LLM backends
ReplyJson   == "{\"reply\": \"hello\"}"
CollideJson == "{\"text\": \"bye\"}"
NotJson     == "not json"

\* json.loads(text)
JsonValid(text) == text \in {ReplyJson, CollideJson, "{}"}

JsonLoads(text) ==
  CASE text = ReplyJson   -> [reply |-> "hello"]
    [] text = CollideJson -> [text |-> "bye"]
    [] OTHER              -> EmptyDict

DecodeError == "Expecting value: line 1 column 1 (char 0)"
HttpError   == "500 Server Error"

TypeError   == "the JSON object must be str, bytes or bytearray, not dict"

\* what a backend may answer: an error status, or a body that carries a
\* text under the given key, or a body without that key
LlmReplies(key) ==
  {[status |-> 500, body |-> EmptyDict], [status |-> 200, body |-> EmptyDict]}
  \cup {[status |-> 200, body |-> (key :> t)] :
          t \in {ReplyJson, CollideJson, NotJson}}

\* json.loads(text) of a string: the value, or str(e) of the decode error
Loads(text) ==
  IF ~JsonValid(text) THEN [err |-> DecodeError, value |-> EmptyDict]
  ELSE [err |-> "", value |-> JsonLoads(text)]

\* lines 127-135: raise_for_status, then json.loads(data.get('response', {}));
\* json.loads of the default {} is a TypeError
ollama_generate(reply) ==
  IF reply.status >= 400 THEN [err |-> HttpError, value |-> EmptyDict]
  ELSE IF "response" \notin DOMAIN reply.body
         THEN [err |-> TypeError, value |-> EmptyDict]
  ELSE Loads(reply.body["response"])

\* lines 163-172: raise_for_status, then json.loads of the function call's
\* arguments, "{}" when the body has none
openai_generate(reply) ==
  IF reply.status >= 400 THEN [err |-> HttpError, value |-> EmptyDict]
  ELSE Loads(Get(reply.body, "arguments", "{}"))

\* --------------------------------------------------------- process_document
\* a process_document(args, doc) call that has not started yet; the fields
\* after "result" record what the call has done so far
NewTask(hit) ==
  [pc |-> "start", doc |-> hit, orig_doc |-> hit,
   doc_id |-> None, original_index |-> None, provider |-> None,
   response |-> EmptyDict, e |-> "", result |-> "none",
   llmCalled |-> FALSE, destIssued |-> FALSE, destOk |-> FALSE,
   delIssued |-> FALSE, delOk |-> FALSE, backIssued |-> FALSE,
   backOk |-> FALSE]

\* raise inside the try block: control goes to the except clause
Raise(t, msg) == [t EXCEPT !.pc = "except", !.e = msg]

\* f"Unknown llm provider: {provider}"
UnknownProvider(provider) ==
  IF provider = None THEN "Unknown llm provider: None"
  ELSE "Unknown llm provider: foo"

\* lines 203-210: which backend the call goes to
Dispatch(provider) ==
  IF provider = "openai" THEN "openai"
  ELSE IF provider = "ollama" THEN "ollama"
  ELSE "unknown"

\* line 194: the destination index is read from the key _original_index
OriginalIndexSpecKey(llm_watcher) ==
  Get(llm_watcher, "original_index", None)

OriginalIndex(llm_watcher) ==
  Get(llm_watcher, "_original_index", None)

\* lines 189-210 up to the backend call: deep copy, control extraction,
\* template compilation and rendering, provider dispatch
Extract(t) ==
  LET ctx         == Get(t.doc, "_source", EmptyDict)
      llm_watcher == Get(ctx, "_llm_watcher", EmptyDict)
      provider    == Get(llm_watcher, "provider", None)
      prompt      == Get(llm_watcher, "prompt", None)
      t1 == [t EXCEPT !.orig_doc = t.doc,
                      !.doc_id = Get(t.doc, "_id", None),
                      !.original_index = OriginalIndex(llm_watcher),
                      !.provider = provider]
  IN  IF TemplateError(prompt) # "" THEN Raise(t1, TemplateError(prompt))
      ELSE IF Dispatch(provider) = "unknown"
             THEN Raise(t1, UnknownProvider(provider))
      ELSE [t1 EXCEPT !.pc = Dispatch(provider)]

\* dict merge, the right operand winning on a key both have
ShallowMerge(a, b) ==
  [x \in DOMAIN a \cup DOMAIN b |-> IF x \in DOMAIN b THEN b[x] ELSE a[x]]

\* the outgoing document built by dropping the control block and merging
AnnotateMerge(t, response) ==
  [t EXCEPT !.pc = "write",
            !.doc = Put(t.doc, "_source",
                        ShallowMerge(Del(t.doc["_source"], "_llm_watcher"),
                                     response))]

\* lines 212-214: new_doc is ctx itself, so the task's doc is changed
Annotate(t, response) ==
  LET ctx == t.doc["_source"]
  IN  IF "_llm_watcher" \notin DOMAIN ctx THEN Raise(t, "'_llm_watcher'")
      ELSE [t EXCEPT !.pc = "write",
                     !.doc = Put(t.doc, "_source",
                               Put(ctx, "_llm_watcher",
                                 Put(Put(ctx["_llm_watcher"], "processed", TRUE),
                                     "output", response)))]

\* lines 205 / 208 and 212-214: the backend call and what follows it
AfterGenerate(t, gen) ==
  LET t1 == [t EXCEPT !.llmCalled = TRUE]
  IN  IF gen.err # "" THEN Raise(t1, gen.err)
      ELSE Annotate([t1 EXCEPT !.response = gen.value], gen.value)

\* the destination write with its exception swallowed
AfterWriteSwallow(t, status) ==
  [t EXCEPT !.destIssued = TRUE, !.pc = "delete", !.destOk = (status < 400)]

\* lines 215-223: the destination write; a rejected write raises
AfterWrite(t, status) ==
  LET t1 == [t EXCEPT !.destIssued = TRUE]
  IN  IF status >= 400 THEN Raise(t1, HttpError)
      ELSE [t1 EXCEPT !.pc = "delete", !.destOk = TRUE]

\* the delete with its exception swallowed
AfterDeleteSwallow(t, status) ==
  [t EXCEPT !.delIssued = TRUE, !.pc = "returned", !.result = "True",
            !.delOk = (status < 400)]

\* a delete that raises although the store has removed the entry
AfterDeleteThenRaise(t, status) ==
  Raise([t EXCEPT !.delIssued = TRUE, !.delOk = (status < 400)], HttpError)

\* lines 225-232 and 246: the delete of the queue entry, then return True
AfterDelete(t, status) ==
  LET t1 == [t EXCEPT !.delIssued = TRUE]
  IN  IF status >= 400 THEN Raise(t1, HttpError)
      ELSE [t1 EXCEPT !.pc = "returned", !.result = "True", !.delOk = TRUE]

\* the record built from the document the try block worked on
ErrorRecordFromDoc(t) ==
  Put(t.doc["_source"], "_llm_watcher",
      Put(t.doc["_source"]["_llm_watcher"], "error", t.e))

\* line 235: the record the except clause builds from the deep copy
ErrorRecord(t) ==
  Put(t.orig_doc["_source"], "_llm_watcher",
      Put(t.orig_doc["_source"]["_llm_watcher"], "error", t.e))

\* line 235 raises KeyError when the fetched item has no control block
CanAnnotate(t) == "_llm_watcher" \in DOMAIN t.orig_doc["_source"]

\* lines 236-245: the write-back; a rejected write raises out of the call
AfterWriteBack(t, status) ==
  LET t1 == [t EXCEPT !.backIssued = TRUE]
  IN  IF status >= 400 THEN [t1 EXCEPT !.pc = "raised"]
      ELSE [t1 EXCEPT !.pc = "returned", !.result = "False", !.backOk = TRUE]

\* the statuses the store may answer to a write and to a delete
WriteStatuses == {200, 500}

DeleteStatuses(store, index, doc_id) ==
  IF Present(store, index, doc_id) THEN {200, 500} ELSE {404}

\* ------------------------------------------------------------------- Init
\* the watch index does not exist yet, or holds any documents of Sources
InitialStores ==
  {EmptyDict} \cup
  UNION {{(WatchIndex :> w) : w \in [S -> Sources]} : S \in SUBSET Ids}

\* no second worker process is running
NoPeer == [pc |-> "off", cycle |-> 0, docs |-> << >>, tasks |-> << >>]

NoLog == [fetch |-> "none", onlyErrors |-> FALSE, summaries |-> 0,
          succeeded |-> 0, failed |-> 0]

Init ==
  /\ args \in [batch_size : 1..MaxBatch, retry_errors : BOOLEAN]
  /\ es \in InitialStores
  /\ mainPc = "idle"
  /\ cycle = 0
  /\ docs = << >>
  /\ tasks = << >>
  /\ cycleLog = NoLog
  /\ delFailed = {}
  /\ peer = NoPeer

\* ---------------------------------------------------------------- actions
\* the watch index holds documents and each carries _llm_watcher.error
OnlyErrors(store) ==
  /\ WatchIndex \in DOMAIN store
  /\ DOMAIN store[WatchIndex] # {}
  /\ \A id \in DOMAIN store[WatchIndex] : ExistsError(store[WatchIndex][id])

\* main, lines 301-304, and worker_loop, lines 249-264: the interval has
\* passed, the batch is fetched and handed to the pool; an exception of the
\* fetch leaves worker_loop and main
FetchTo(c) ==
  /\ mainPc = "idle"
  /\ \E status \in SearchStatuses(es, WatchIndex) :
       LET r == get_elasticsearch_docs(es, WatchIndex, args.batch_size,
                                       args.retry_errors, status)
       IN  /\ cycle' = c
           /\ cycleLog' = [NoLog EXCEPT
                 !.fetch = IF r.raised THEN "error"
                           ELSE IF status = 404 THEN "404" ELSE "ok",
                 !.onlyErrors = OnlyErrors(es)]
           /\ IF r.raised
                THEN /\ mainPc' = "crashed"
                     /\ docs' = << >>
                     /\ tasks' = << >>
                ELSE /\ mainPc' = "dispatching"
                     /\ docs' = r.hits
                     /\ tasks' = [k \in 1..Len(r.hits) |-> NewTask(r.hits[k])]
  /\ UNCHANGED <<args, es, delFailed, peer>>

\* the cycles that are counted
Fetch ==
  /\ cycle < MaxCycles
  /\ FetchTo(cycle + 1)

\* main, lines 301-304: while True never ends; the cycles after the counted
\* ones leave the count where it is
FetchAgain ==
  /\ cycle = MaxCycles
  /\ FetchTo(cycle)

\* process_document, lines 189-210, up to the backend call
Prepare(k) ==
  /\ mainPc = "dispatching"
  /\ k \in DOMAIN tasks
  /\ tasks[k].pc = "start"
  /\ tasks' = [tasks EXCEPT ![k] = Extract(@)]
  /\ UNCHANGED <<args, es, mainPc, cycle, docs, cycleLog, delFailed, peer>>

\* line 205 and lines 212-214
CallOpenai(k) ==
  /\ mainPc = "dispatching"
  /\ k \in DOMAIN tasks
  /\ tasks[k].pc = "openai"
  /\ \E reply \in LlmReplies("arguments") :
       tasks' = [tasks EXCEPT ![k] = AfterGenerate(@, openai_generate(reply))]
  /\ UNCHANGED <<args, es, mainPc, cycle, docs, cycleLog, delFailed, peer>>

\* line 208 and lines 212-214
CallOllama(k) ==
  /\ mainPc = "dispatching"
  /\ k \in DOMAIN tasks
  /\ tasks[k].pc = "ollama"
  /\ \E reply \in LlmReplies("response") :
       tasks' = [tasks EXCEPT ![k] = AfterGenerate(@, ollama_generate(reply))]
  /\ UNCHANGED <<args, es, mainPc, cycle, docs, cycleLog, delFailed, peer>>

\* lines 215-223
WriteDest(k) ==
  /\ mainPc = "dispatching"
  /\ k \in DOMAIN tasks
  /\ tasks[k].pc = "write"
  /\ \E status \in WriteStatuses :
       /\ tasks' = [tasks EXCEPT ![k] = AfterWrite(@, status)]
       /\ es' = IF status >= 400 THEN es
                ELSE Upsert(es, tasks[k].original_index, tasks[k].doc_id,
                            tasks[k].doc["_source"])
  /\ UNCHANGED <<args, mainPc, cycle, docs, cycleLog, delFailed, peer>>

\* lines 225-232, 246
DeleteSource(k) ==
  /\ mainPc = "dispatching"
  /\ k \in DOMAIN tasks
  /\ tasks[k].pc = "delete"
  /\ \E status \in DeleteStatuses(es, WatchIndex, tasks[k].doc_id) :
       /\ tasks' = [tasks EXCEPT ![k] = AfterDelete(@, status)]
       /\ es' = IF status >= 400 THEN es
                ELSE Remove(es, WatchIndex, tasks[k].doc_id)
       /\ delFailed' = IF status >= 400 THEN delFailed \cup {tasks[k].doc_id}
                       ELSE delFailed
  /\ UNCHANGED <<args, mainPc, cycle, docs, cycleLog, peer>>

\* lines 233-245, the except clause
HandleError(k) ==
  /\ mainPc = "dispatching"
  /\ k \in DOMAIN tasks
  /\ tasks[k].pc = "except"
  /\ IF ~CanAnnotate(tasks[k])
       THEN /\ tasks' = [tasks EXCEPT ![k].pc = "raised"]
            /\ es' = es
       ELSE \E status \in WriteStatuses :
              /\ tasks' = [tasks EXCEPT ![k] = AfterWriteBack(@, status)]
              /\ es' = IF status >= 400 THEN es
                       ELSE Upsert(es, WatchIndex, tasks[k].orig_doc["_id"],
                                   ErrorRecord(tasks[k]))
  /\ UNCHANGED <<args, mainPc, cycle, docs, cycleLog, delFailed, peer>>

\* a starmap that does not wait for its tasks
FinishedAlways(t) ==
  TRUE

\* pool.starmap blocks until the call has returned or raised
Finished(t) ==
  t.pc \in {"returned", "raised"}

\* line 268
Errors(ts) == Cardinality({k \in DOMAIN ts : ts[k].result # "True"})

\* worker_loop, lines 264-271: starmap returns when every task has finished
\* (a batch of at most four items per pool process is mapped one item per
\* task, so no item is skipped because a sibling raised)
\* and re-raises the exception of a task that raised, which leaves
\* worker_loop and main; otherwise the summary is logged for a non-empty batch
Join ==
  /\ mainPc = "dispatching"
  /\ \A k \in DOMAIN tasks : Finished(tasks[k])
  /\ IF \E k \in DOMAIN tasks : tasks[k].pc = "raised"
       THEN /\ mainPc' = "crashed"
            /\ cycleLog' = cycleLog
       ELSE /\ mainPc' = "idle"
            /\ cycleLog' = IF Len(docs) # 0
                 THEN [cycleLog EXCEPT !.summaries = @ + 1,
                                       !.succeeded = Len(docs) - Errors(tasks),
                                       !.failed = Errors(tasks)]
                 ELSE cycleLog
  /\ UNCHANGED <<args, es, cycle, docs, tasks, delFailed, peer>>

Next ==
  \/ Fetch
  \/ \E k \in 1..MaxBatch : Prepare(k)
  \/ \E k \in 1..MaxBatch : CallOpenai(k)
  \/ \E k \in 1..MaxBatch : CallOllama(k)
  \/ \E k \in 1..MaxBatch : WriteDest(k)
  \/ \E k \in 1..MaxBatch : DeleteSource(k)
  \/ \E k \in 1..MaxBatch : HandleError(k)
  \/ Join

Spec == Init /\ [][Next]_vars

\* ------------------------------------------------ a second worker process
\* Two instances of the program started against the same store and watch
\* index: the second runs the same main, worker_loop and process_document;
\* its loop position, batch and calls are the fields of peer.
mainOthers == <<args, mainPc, cycle, docs, tasks, cycleLog>>

PeerFetch ==
  /\ peer.pc = "idle"
  /\ peer.cycle < MaxCycles
  /\ \E status \in SearchStatuses(es, WatchIndex) :
       LET r == get_elasticsearch_docs(es, WatchIndex, args.batch_size,
                                       args.retry_errors, status)
       IN  peer' = [pc    |-> IF r.raised THEN "crashed" ELSE "dispatching",
                    cycle |-> peer.cycle + 1,
                    docs  |-> r.hits,
                    tasks |-> [k \in 1..Len(r.hits) |-> NewTask(r.hits[k])]]
  /\ UNCHANGED <<mainOthers, es, delFailed>>

PeerPrepare(k) ==
  /\ peer.pc = "dispatching"
  /\ k \in DOMAIN peer.tasks
  /\ peer.tasks[k].pc = "start"
  /\ peer' = [peer EXCEPT !.tasks[k] = Extract(@)]
  /\ UNCHANGED <<mainOthers, es, delFailed>>

PeerCallOpenai(k) ==
  /\ peer.pc = "dispatching"
  /\ k \in DOMAIN peer.tasks
  /\ peer.tasks[k].pc = "openai"
  /\ \E reply \in LlmReplies("arguments") :
       peer' = [peer EXCEPT
                  !.tasks[k] = AfterGenerate(@, openai_generate(reply))]
  /\ UNCHANGED <<mainOthers, es, delFailed>>

PeerCallOllama(k) ==
  /\ peer.pc = "dispatching"
  /\ k \in DOMAIN peer.tasks
  /\ peer.tasks[k].pc = "ollama"
  /\ \E reply \in LlmReplies("response") :
       peer' = [peer EXCEPT
                  !.tasks[k] = AfterGenerate(@, ollama_generate(reply))]
  /\ UNCHANGED <<mainOthers, es, delFailed>>

PeerWriteDest(k) ==
  /\ peer.pc = "dispatching"
  /\ k \in DOMAIN peer.tasks
  /\ peer.tasks[k].pc = "write"
  /\ \E status \in WriteStatuses :
       /\ peer' = [peer EXCEPT !.tasks[k] = AfterWrite(@, status)]
       /\ es' = IF status >= 400 THEN es
                ELSE Upsert(es, peer.tasks[k].original_index,
                            peer.tasks[k].doc_id, peer.tasks[k].doc["_source"])
  /\ UNCHANGED <<mainOthers, delFailed>>

PeerDeleteSource(k) ==
  /\ peer.pc = "dispatching"
  /\ k \in DOMAIN peer.tasks
  /\ peer.tasks[k].pc = "delete"
  /\ \E status \in DeleteStatuses(es, WatchIndex, peer.tasks[k].doc_id) :
       /\ peer' = [peer EXCEPT !.tasks[k] = AfterDelete(@, status)]
       /\ es' = IF status >= 400 THEN es
                ELSE Remove(es, WatchIndex, peer.tasks[k].doc_id)
       /\ delFailed' = IF status >= 400
                         THEN delFailed \cup {peer.tasks[k].doc_id}
                         ELSE delFailed
  /\ UNCHANGED mainOthers

PeerHandleError(k) ==
  /\ peer.pc = "dispatching"
  /\ k \in DOMAIN peer.tasks
  /\ peer.tasks[k].pc = "except"
  /\ IF ~CanAnnotate(peer.tasks[k])
       THEN /\ peer' = [peer EXCEPT !.tasks[k].pc = "raised"]
            /\ es' = es
       ELSE \E status \in WriteStatuses :
              /\ peer' = [peer EXCEPT !.tasks[k] = AfterWriteBack(@, status)]
              /\ es' = IF status >= 400 THEN es
                       ELSE Upsert(es, WatchIndex,
                                   peer.tasks[k].orig_doc["_id"],
                                   ErrorRecord(peer.tasks[k]))
  /\ UNCHANGED <<mainOthers, delFailed>>

PeerJoin ==
  /\ peer.pc = "dispatching"
  /\ \A k \in DOMAIN peer.tasks : Finished(peer.tasks[k])
  /\ peer' = [peer EXCEPT !.pc =
                IF \E k \in DOMAIN peer.tasks : peer.tasks[k].pc = "raised"
                  THEN "crashed" ELSE "idle"]
  /\ UNCHANGED <<mainOthers, es, delFailed>>

PeerNext ==
  \/ PeerFetch
  \/ \E k \in 1..MaxBatch : PeerPrepare(k)
  \/ \E k \in 1..MaxBatch : PeerCallOpenai(k)
  \/ \E k \in 1..MaxBatch : PeerCallOllama(k)
  \/ \E k \in 1..MaxBatch : PeerWriteDest(k)
  \/ \E k \in 1..MaxBatch : PeerDeleteSource(k)
  \/ \E k \in 1..MaxBatch : PeerHandleError(k)
  \/ PeerJoin

\* the items of the runs with one or two worker processes
PairSources == {Src("hi", CtlOllama), Src("hey", CtlOpenai), Src("hi", CtlUnknown)}

\* one worker process on one or two items, or two worker processes on one item
InitPair ==
  /\ args \in [batch_size : 1..MaxBatch, retry_errors : BOOLEAN]
  /\ \/ /\ peer = NoPeer
        /\ es \in {(WatchIndex :> w) : w \in [Ids -> PairSources]}
     \/ /\ peer = [NoPeer EXCEPT !.pc = "idle"]
        /\ args.batch_size = 1
        /\ es \in {(WatchIndex :> ("1" :> src)) : src \in PairSources}
  /\ mainPc = "idle"
  /\ cycle = 0
  /\ docs = << >>
  /\ tasks = << >>
  /\ cycleLog = NoLog
  /\ delFailed = {}

NextPair == Next \/ PeerNext

SpecPair == InitPair /\ [][NextPair]_vars

\* ------------------------------------------------- the loop that never ends
\* The runs in which every store and LLM call returns and answers without a
\* fault: the search, the writes and the deletes are accepted and the backend
\* replies with a JSON object, so a call fails only on what its item holds.
NoFault(t) ==
  /\ t.e \in {"", UnknownProvider(t.provider)}
  /\ t.destIssued => t.destOk
  /\ t.delIssued => t.delOk
  /\ t.backIssued => t.backOk

Reliable ==
  /\ mainPc' # "crashed"
  /\ \A k \in DOMAIN tasks' : NoFault(tasks'[k])

LiveFetch == Fetch /\ Reliable

LiveFetchAgain == FetchAgain /\ Reliable

LivePrepare(k) == Prepare(k) /\ Reliable

LiveCallOpenai(k) == CallOpenai(k) /\ Reliable

LiveCallOllama(k) == CallOllama(k) /\ Reliable

LiveWriteDest(k) == WriteDest(k) /\ Reliable

LiveDeleteSource(k) == DeleteSource(k) /\ Reliable

LiveHandleError(k) == HandleError(k) /\ Reliable

LiveJoin == Join /\ Reliable

\* items that succeed on every attempt, one of them annotated by an earlier
\* failed attempt, and an item that fails on every attempt
LiveSources ==
  {Src("hi", CtlOllama), Src("hey", CtlOpenai),
   Src("hi", Put(CtlOllama, "error", HttpError)), Src("hi", CtlUnknown)}

LiveInit ==
  /\ args \in [batch_size : 1..MaxBatch, retry_errors : BOOLEAN]
  /\ es \in {(WatchIndex :> w) : w \in [Ids -> LiveSources]}
  /\ mainPc = "idle"
  /\ cycle = 0
  /\ docs = << >>
  /\ tasks = << >>
  /\ cycleLog = NoLog
  /\ delFailed = {}
  /\ peer = NoPeer

LiveNext ==
  \/ LiveFetch
  \/ LiveFetchAgain
  \/ \E k \in 1..MaxBatch : LivePrepare(k)
  \/ \E k \in 1..MaxBatch : LiveCallOpenai(k)
  \/ \E k \in 1..MaxBatch : LiveCallOllama(k)
  \/ \E k \in 1..MaxBatch : LiveWriteDest(k)
  \/ \E k \in 1..MaxBatch : LiveDeleteSource(k)
  \/ \E k \in 1..MaxBatch : LiveHandleError(k)
  \/ LiveJoin

\* the loop and the pool keep running: a step that can be taken is taken
LiveSpec == LiveInit /\ [][LiveNext]_vars /\ WF_vars(LiveNext)

\* ------------------------------------------------------------------ claims
\* the item of task k as the search returned it
FetchedId(k)     == docs[k]["_id"]
FetchedSource(k) == docs[k]["_source"]
FetchedCtl(k)    == Get(FetchedSource(k), "_llm_watcher", EmptyDict)

InWatch(id) == Present(es, WatchIndex, id)

\* the store rejected the write-back of task k
BackRejected(k) == tasks[k].backIssued /\ ~tasks[k].backOk

\* C1: at-least-once.  A delete of the queue entry is issued only by a call
\* whose destination write succeeded before; and an entry that was fetched in
\* this cycle and is gone from the watch index belongs to such a call, whose
\* document is in the destination index.
C1_AtLeastOnce ==
  \A k \in DOMAIN tasks :
    /\ tasks[k].delIssued => tasks[k].destOk
    /\ ~InWatch(FetchedId(k)) =>
         /\ tasks[k].destOk
         /\ Present(es, tasks[k].original_index, FetchedId(k))
    /\ (tasks[k].e # "" /\ ~tasks[k].delIssued) => InWatch(FetchedId(k))

\* a call whose destination write was rejected has run its except clause and
\* the entry is still in the watch index
C1_Witness ==
  \E k \in DOMAIN tasks :
    /\ tasks[k].destIssued /\ ~tasks[k].destOk
    /\ tasks[k].pc = "returned"
    /\ InWatch(FetchedId(k))

\* the document of the specification: source fields without the control
\* block, overlaid with the GenerationResult
SpecMerged(k) ==
  ShallowMerge(Del(FetchedSource(k), "_llm_watcher"), tasks[k].response)

\* the document the program writes: the source with processed and output
\* added inside the control block
Wrapped(k) ==
  Put(FetchedSource(k), "_llm_watcher",
      Put(Put(FetchedCtl(k), "processed", TRUE), "output", tasks[k].response))

\* the document task k put into its destination index
Written(k) == es[tasks[k].original_index][FetchedId(k)]

\* C2 as stated: the document written to the destination has no control
\* block and is the shallow merge of the source fields and the
\* GenerationResult.
C2_Original ==
  \A k \in DOMAIN tasks :
    tasks[k].destOk =>
      /\ "_llm_watcher" \notin DOMAIN Written(k)
      /\ Written(k) = SpecMerged(k)

\* C2 amended: the document written to the destination is the fetched
\* source with every field unchanged and with processed = true and output =
\* GenerationResult added inside the control block _llm_watcher; a call on an
\* item with a compilable prompt and a known provider fails only through a
\* transport error or an undecodable payload, and returns True once its delete is accepted.
C2_Amended ==
  \A k \in DOMAIN tasks :
    /\ tasks[k].destOk =>
         /\ Written(k) = Wrapped(k)
         /\ \A f \in DOMAIN FetchedSource(k) \ {"_llm_watcher"} :
              Written(k)[f] = FetchedSource(k)[f]
         /\ Written(k)["_llm_watcher"]["output"] = tasks[k].response
    /\ tasks[k].llmCalled /\ tasks[k].e # ""
         => tasks[k].e \in {HttpError, DecodeError, TypeError}
    /\ tasks[k].delOk => tasks[k].pc = "returned" /\ tasks[k].result = "True"

\* a call succeeded whose GenerationResult has a key of the source
C2_Witness ==
  \E k \in DOMAIN tasks :
    /\ tasks[k].result = "True"
    /\ tasks[k].response = [text |-> "bye"]
    /\ Written(k)["text"] = "hi"

\* C3 as stated: the document is written to the index named by the control
\* field original_index under the item's id, and the watch entry is deleted
\* on success.
C3_Original ==
  \A k \in DOMAIN tasks :
    /\ tasks[k].destOk /\ "original_index" \in DOMAIN FetchedCtl(k)
         => Present(es, FetchedCtl(k)["original_index"], FetchedId(k))
    /\ tasks[k].result = "True" => ~InWatch(FetchedId(k))

\* C3 amended: the document is written under the item's id to the index
\* named by the control field _original_index (to the index "None" when the
\* control block has no such key, as in scenario 1's item); an item with
\* _original_index = "out" and id "1" is written to out/1; on success the
\* watch entry of the id is deleted.
C3_Amended ==
  \A k \in DOMAIN tasks :
    /\ tasks[k].destOk =>
         /\ Present(es, Get(FetchedCtl(k), "_original_index", None), FetchedId(k))
         /\ tasks[k].doc_id = FetchedId(k)
         /\ ("_original_index" \notin DOMAIN FetchedCtl(k)
               => Present(es, "None", FetchedId(k)))
         /\ (Get(FetchedCtl(k), "_original_index", None) = "out"
               /\ FetchedId(k) = "1" => Present(es, "out", "1"))
    /\ tasks[k].result = "True" => ~InWatch(FetchedId(k))

\* item 1 with _original_index = "out" was written to out/1 and deleted
C3_Witness ==
  \E k \in DOMAIN tasks :
    /\ FetchedId(k) = "1"
    /\ FetchedSource(k) = Src("hi", CtlOllama)
    /\ tasks[k].result = "True"
    /\ Present(es, "out", "1")
    /\ ~InWatch("1")

UnrecognizedProvider(k) ==
  Get(FetchedCtl(k), "provider", None) \notin {"ollama", "openai"}

\* the entry of task k's item is in the watch index with a non-empty error
Annotated(k) ==
  /\ InWatch(FetchedId(k))
  /\ ExistsError(es[WatchIndex][FetchedId(k)])
  /\ es[WatchIndex][FetchedId(k)]["_llm_watcher"]["error"] # ""

\* C5: for an item whose provider is neither "ollama" nor "openai", or is
\* absent, no backend is called, no destination write and no delete is
\* issued, and the call ends by returning False with the entry annotated
\* (unless the store rejected the write of the annotation).
C5_Claim ==
  \A k \in DOMAIN tasks :
    UnrecognizedProvider(k) =>
      /\ ~tasks[k].llmCalled /\ ~tasks[k].destIssued /\ ~tasks[k].delIssued
      /\ InWatch(FetchedId(k))
      /\ (Finished(tasks[k]) /\ ~BackRejected(k))
           => tasks[k].pc = "returned" /\ tasks[k].result = "False"
              /\ Annotated(k)

\* C6: a fetch over a watch index that holds only items carrying
\* _llm_watcher.error returns no item when retry-errors is disabled and
\* returns those items when retry-errors is enabled.
C6_Claim ==
  (cycleLog.fetch = "ok" /\ cycleLog.onlyErrors) =>
    IF args.retry_errors
      THEN /\ Len(docs) > 0
           /\ \A k \in DOMAIN docs : ExistsError(FetchedSource(k))
      ELSE Len(docs) = 0

\* C7: a call that hit a processing error ends with the Failure outcome, and
\* a processing error does not terminate the loop: the loop is left only
\* after a fetch error or a rejected write-back.
C7_Claim ==
  /\ \A k \in DOMAIN tasks :
       (tasks[k].e # "" /\ Finished(tasks[k]) /\ ~BackRejected(k))
         => tasks[k].result = "False" /\ Annotated(k)
  /\ mainPc = "crashed" =>
       \/ cycleLog.fetch = "error"
       \/ \E k \in DOMAIN tasks : BackRejected(k)

\* C8: after a fetch error no document is processed in the cycle and the
\* loop is still alive.
C8_Claim ==
  cycleLog.fetch = "error" => (mainPc # "crashed" /\ Len(docs) = 0)

\* C9: a rejected write-back does not leave the call as an exception: the
\* item is counted as failed and the loop is still alive.
C9_Claim ==
  \A k \in DOMAIN tasks :
    BackRejected(k) =>
      /\ tasks[k].pc = "returned" /\ tasks[k].result = "False"
      /\ mainPc # "crashed"

\* the cycle is over: every call has ended and starmap has returned or raised
CycleOver == mainPc \in {"idle", "crashed"} /\ cycle > 0

\* C10: for an item whose failure was raised before the destination write,
\* no destination index holds a document of its id written in this cycle and,
\* once the cycle is over, its watch entry is present with a non-empty error
\* (unless the store rejected the write of the annotation).
C10_Claim ==
  \A k \in DOMAIN tasks :
    (tasks[k].e # "" /\ ~tasks[k].destIssued) =>
      /\ InWatch(FetchedId(k))
      /\ (cycle = 1 => \A x \in DOMAIN es \ {WatchIndex} :
                          ~Present(es, x, FetchedId(k)))
      /\ (CycleOver /\ ~BackRejected(k)) => Annotated(k)

\* C11: a search of a watch index that does not exist (404) returns an
\* empty batch and raises nothing: no call is started, the loop is alive, no
\* summary is logged and nothing has been written to the store.
C11_MissingIndex ==
  /\ cycleLog.fetch = "404" =>
       /\ docs = << >> /\ tasks = << >>
       /\ mainPc # "crashed"
       /\ cycleLog.summaries = 0
       /\ es = EmptyDict
  /\ (cycle > 0 /\ WatchIndex \notin DOMAIN es) =>
       cycleLog.fetch = "404" /\ mainPc # "crashed"

\* a second cycle has run against the missing index
C11_Witness ==
  cycle = 2 /\ cycleLog.fetch = "404" /\ mainPc = "idle"

\* the destination index of task k's item
DestOf(k) == Get(FetchedCtl(k), "_original_index", None)

\* the task of the current batch that has the item id
TaskOf(id) == CHOOSE k \in DOMAIN docs : FetchedId(k) = id

\* what a destination index holds when every item of the batch succeeded
ExpectedDest(x) ==
  [id \in {FetchedId(k) : k \in {j \in DOMAIN docs : DestOf(j) = x}} |->
     Wrapped(TaskOf(id))]

AllSucceeded ==
  Len(tasks) > 0 /\ \A k \in DOMAIN tasks : tasks[k].result = "True"

\* C12: when every item of the first batch has succeeded, whatever the order
\* in which the calls and their steps ran, the store is the same: no fetched
\* id is left in the watch index, the destination indices are exactly those
\* the items name, and each holds exactly its items' documents under their ids.
C12_OrderIndependent ==
  (cycle = 1 /\ AllSucceeded) =>
    /\ \A k \in DOMAIN tasks : ~InWatch(FetchedId(k))
    /\ DOMAIN es \ {WatchIndex} = {DestOf(k) : k \in DOMAIN tasks}
    /\ \A x \in DOMAIN es \ {WatchIndex} : es[x] = ExpectedDest(x)

\* an ollama item and an openai item of one batch both succeeded
C12_Witness ==
  /\ Len(tasks) = 2 /\ AllSucceeded
  /\ {tasks[1].provider, tasks[2].provider} = {"ollama", "openai"}

\* C14: a cycle fetches at most batch_size items and starts one call per
\* fetched item, each for a different id.
C14_BatchBound ==
  /\ Len(docs) <= args.batch_size
  /\ Len(tasks) = Len(docs)
  /\ \A j, k \in DOMAIN docs : FetchedId(j) = FetchedId(k) => j = k

\* two items matched and the batch of size 1 took one
C14_Witness ==
  /\ args.batch_size = 1 /\ Len(docs) = 1
  /\ mainPc = "dispatching" /\ tasks[1].pc = "start"
  /\ Cardinality(DOMAIN es[WatchIndex]) = 2

\* C20: a fetch is issued only when every call of the previous batch has
\* returned with its outcome: True after its delete, or False after its
\* write-back.
C20_NoOverlap ==
  [][cycle' # cycle =>
       \A k \in DOMAIN tasks :
         /\ tasks[k].pc = "returned"
         /\ \/ tasks[k].result = "True" /\ tasks[k].delOk
            \/ tasks[k].result = "False" /\ tasks[k].backOk]_vars

\* the second cycle has fetched an item that the first cycle annotated
C20_Witness ==
  /\ cycle = 2
  /\ \E k \in DOMAIN docs : ExistsError(FetchedSource(k))

\* C13: a cycle whose batch is not empty logs the summary exactly once, with
\* failed = the number of calls that returned False and succeeded = total -
\* failed; a cycle that fetched nothing logs no summary and starts no call
\* (cycles in which the store rejected a write-back are left aside).
C13_Claim ==
  (CycleOver /\ \A k \in DOMAIN tasks : ~BackRejected(k)) =>
    IF Len(docs) # 0
      THEN /\ cycleLog.summaries = 1
           /\ cycleLog.failed =
                Cardinality({k \in DOMAIN tasks : tasks[k].result = "False"})
           /\ cycleLog.succeeded = Len(docs) - cycleLog.failed
      ELSE cycleLog.summaries = 0 /\ tasks = << >>

\* C15: when the cycle is over, the watch entry of every fetched item has
\* been changed exactly once by its call: by the delete or by the write-back
\* of the annotated entry, never by both and never by neither (cycles in
\* which the store rejected a write-back are left aside).
C15_Claim ==
  /\ \A k \in DOMAIN tasks : ~(tasks[k].delOk /\ tasks[k].backOk)
  /\ (CycleOver /\ \A k \in DOMAIN tasks : ~BackRejected(k)) =>
       \A k \in DOMAIN tasks : tasks[k].delOk \/ tasks[k].backOk

\* the document a first successful processing of the item writes: the item
\* as the producer put it, without the error of an earlier attempt
FirstTime(k) ==
  Put(FetchedSource(k), "_llm_watcher",
      Put(Put(Del(FetchedCtl(k), "error"), "processed", TRUE),
          "output", tasks[k].response))

\* C16: the document a call writes to the destination, also a call that
\* processes an item again after an earlier attempt annotated it, is the
\* document a first successful processing of the item writes.
C16_Claim ==
  \A k \in DOMAIN tasks : tasks[k].destOk => Written(k) = FirstTime(k)

\* the destination write of task k succeeded and its delete was rejected
DeleteFailedAfterWrite(k) ==
  tasks[k].destOk /\ tasks[k].delIssued /\ ~tasks[k].delOk

\* some index other than the watch index holds a document of the id
InAnyDest(id) == \E x \in DOMAIN es \ {WatchIndex} : Present(es, x, id)

\* the watch entry of the id carries an error
AnnotatedId(id) == InWatch(id) /\ ExistsError(es[WatchIndex][id])

\* a call on the id is between its destination write and its delete
InDeleteWindow(id) ==
  \E k \in DOMAIN tasks : FetchedId(k) = id /\ tasks[k].pc = "delete"

\* what C17 says of a rejected delete: the call does not succeed, the
\* document it wrote stays in the destination, the watch entry stays, and the
\* call returns False with the entry annotated once its write-back is accepted
NoRollback(k) ==
  /\ tasks[k].result # "True"
  /\ Present(es, tasks[k].original_index, FetchedId(k))
  /\ Written(k) = Wrapped(k)
  /\ InWatch(FetchedId(k))
  /\ tasks[k].backOk => tasks[k].result = "False" /\ Annotated(k)
  /\ (Finished(tasks[k]) /\ ~BackRejected(k)) => tasks[k].backOk

UnrecognizedEntry(id) ==
  LET ctl == Get(es[WatchIndex][id], "_llm_watcher", EmptyDict)
  IN  Get(ctl, "provider", None) \notin {"ollama", "openai"}

\* the entry of the id was deleted after a successful processing: its
\* document is in a destination index and the watch index has no entry of it
Acked(id) == InAnyDest(id) /\ ~InWatch(id)

\* C18 as stated: once the entry of an id has been deleted after a
\* successful processing, no step re-creates an entry of that id in the watch
\* index, with one worker process and with two.
C18_Original ==
  [][\A id \in Ids : Acked(id) => ~InWatch(id)']_vars

\* C18 amended: with one worker process no step re-creates the entry; an
\* entry that is re-created is re-created while a second worker process runs
\* on the same watch index, by a failure write-back, and carries an error.
C18_Amended ==
  [][\A id \in Ids :
       (Acked(id) /\ InWatch(id)') =>
         /\ peer.pc # "off"
         /\ ExistsError(es'[WatchIndex][id])
         /\ \/ \E k \in DOMAIN tasks : tasks'[k].backOk /\ ~tasks[k].backOk
            \/ \E k \in DOMAIN peer.tasks :
                 peer'.tasks[k].backOk /\ ~peer.tasks[k].backOk]_vars

\* one worker process: an entry was deleted after success and a sibling of
\* the batch has written its failure back
C18_Witness ==
  /\ peer.pc = "off"
  /\ \E j, k \in DOMAIN tasks :
       /\ tasks[j].delOk /\ Acked(FetchedId(j))
       /\ tasks[k].backOk /\ Annotated(k)

\* the entry of the id is in the watch index and its processing succeeds
\* whenever it is attempted
WouldSucceed(id) ==
  /\ InWatch(id)
  /\ ~UnrecognizedEntry(id)

\* the item was written to its destination and its entry deleted
Done(id) == InAnyDest(id) /\ ~InWatch(id)

\* the entries that fail on every attempt and come before id in the order
\* in which the store returns the hits
FailingBefore(id) ==
  {j \in Ids : /\ InWatch(j)
               /\ UnrecognizedEntry(j)
               /\ \E a, b \in 1..Len(StoreOrder) :
                    a < b /\ StoreOrder[a] = j /\ StoreOrder[b] = id}

\* C19 as stated: when no call is at fault and the loop keeps cycling, every
\* entry of the watch index whose processing would succeed is eventually
\* written to its destination and deleted, for either value of retry_errors
\* and also behind batch_size or more entries that always fail.
C19_Original ==
  \A id \in Ids : WouldSucceed(id) ~> Done(id)

\* C19 amended: such an entry is eventually written and deleted when the
\* fetch query matches it and either the query filters error-annotated
\* entries out (retry_errors set, as the query is coded) or fewer than
\* batch_size always-failing entries come before it in the store's order.
C19_Amended ==
  \A id \in Ids :
    (/\ WouldSucceed(id)
     /\ QueryMatches(args.retry_errors, es[WatchIndex][id])
     /\ \/ args.retry_errors
        \/ Cardinality(FailingBefore(id)) < args.batch_size)
      ~> Done(id)

\* an always-failing entry filled the whole batch, was annotated and left
\* out of the next fetch, and the entry behind it was written and deleted
C19_Witness ==
  /\ args.retry_errors
  /\ args.batch_size = 1
  /\ InWatch("1") /\ UnrecognizedEntry("1")
  /\ ExistsError(es[WatchIndex]["1"])
  /\ Done("2")
  /\ cycle >= 2

=============================================================================
